---------------------------- MODULE Spec2Model ----------------------------
(***************************************************************************)
(* pyTranslateSwf.parsers: extraction and replacement of strings in        *)
(* assets exported by the JPEXS decompiler; pyTranslateSwf.translators:    *)
(* the cached, batched translation of the extracted strings.               *)
(*                                                                         *)
(* A text is a sequence of characters; a character is a one-character      *)
(* string, a character outside ASCII being written as its code point       *)
(* ("U+3002" is the ideographic full stop).                                *)
(***************************************************************************)
EXTENDS Integers, Sequences, FiniteSets, TLC

VARIABLES
    cls,        \* the Parser subclass of the object
    mode,       \* self.mode (JPEXSActionScriptParser only)
    regex,      \* whether the optional module `regex` was imported
    source,     \* the text read by Parser.__init__
    data,       \* self.data
    strings,    \* self.strings
    arg,        \* the argument of the last replace_strings call
    outcome,    \* how the last call ended
    calls,      \* number of replace_strings / translate_all calls made on the object
    BATCH_SIZE,         \* the BATCH_SIZE of the Translator subclass
    CACHE_NAME,         \* its CACHE_NAME
    cache,              \* self.cache.orig_to_translation
    cache_file,         \* what the file CACHE_NAME holds
    all_input_strings,  \* the argument of the last translate_all call
    all_output_strings, \* what it returned
    backend             \* the _translate_all calls it made: argument and result

parser_vars == <<cls, mode, regex, source, data, strings, arg>>

translator_vars ==
    <<BATCH_SIZE, CACHE_NAME, cache, cache_file, all_input_strings, all_output_strings,
      backend>>

vars == <<parser_vars, outcome, calls, translator_vars>>

\* a dict with no key
EmptyDict == [orig \in {} |-> << >>]

\* a file is the one-element list of its content; no file is the empty list
ABSENT == << >>

\* the object is a parser: there is no translator
NoTranslator ==
    /\ BATCH_SIZE = 0
    /\ CACHE_NAME = "None"
    /\ cache = EmptyDict
    /\ cache_file = ABSENT
    /\ all_input_strings = << >>
    /\ all_output_strings = << >>
    /\ backend = << >>

\* the object is a translator: there is no parser
NoParser ==
    /\ mode = "none"
    /\ regex = FALSE
    /\ source = << >>
    /\ data = << >>
    /\ strings = << >>
    /\ arg = << >>

-----------------------------------------------------------------------------
(* Characters and character classes                                        *)

DQ == "\""
SQ == "'"
NL == "\n"

\* \s on the characters of the model's texts
WhiteSpace == {" ", "\n", "\t"}

\* [a-zA-Z0-9#]
EntityChars ==
    {"a", "b", "c", "d", "e", "f", "g", "h", "i", "j", "k", "l", "m", "n", "o", "p", "q",
     "r", "s", "t", "u", "v", "w", "x", "y", "z",
     "A", "B", "C", "D", "E", "F", "G", "H", "I", "J", "K", "L", "M", "N", "O", "P", "Q",
     "R", "S", "T", "U", "V", "W", "X", "Y", "Z",
     "0", "1", "2", "3", "4", "5", "6", "7", "8", "9", "#"}

\* [<\n&], the characters the escaping removes
StrippedChars == {"<", "\n", "&"}

\* SENTENCE_PUNCTUATION_PATTERN's class: the six punctuation marks
SentencePunctuation == {"U+300C", "U+300D", "U+3001", "U+3002", "U+FF1F", "U+2026"}

\* \p{General_Category=Other_Letter} on the characters of the model's texts:
\* the kana and kanji of the repository's tests
OtherLetter ==
    {"U+3044", "U+3061", "U+306B", "U+3055", "U+3093", "U+4E00", "U+4E8C", "U+4E09"}

\* the {6,} of the letter-run pattern
MinLetterRun == 6

-----------------------------------------------------------------------------
(* Text helpers                                                            *)

Max(a, b) == IF a >= b THEN a ELSE b

RECURSIVE Flatten(_)
\* "".join(list)
Flatten(ss) == IF ss = <<>> THEN <<>> ELSE Head(ss) \o Flatten(Tail(ss))

RECURSIVE SkipWhile(_, _, _)
\* the first index q >= p of s whose character is not in S (Len(s)+1 if none):
\* where a greedy run S* starting at p ends
SkipWhile(s, p, S) ==
    IF p > Len(s) THEN Len(s) + 1
    ELSE IF s[p] \in S THEN SkipWhile(s, p + 1, S) ELSE p

RECURSIVE IndexOf(_, _, _)
\* the first index q >= p of s holding character c, 0 if there is none
IndexOf(s, p, c) ==
    IF p > Len(s) THEN 0
    ELSE IF s[p] = c THEN p ELSE IndexOf(s, p + 1, c)

\* whether pat occurs in s at index p
OccursAt(s, p, pat) ==
    /\ p >= 1
    /\ p + Len(pat) - 1 <= Len(s)
    /\ SubSeq(s, p, p + Len(pat) - 1) = pat

-----------------------------------------------------------------------------
(* JPEXSPlainTextParser                                                    *)

SEPARATOR ==
    <<"\n", "-", "-", "-", " ", "R", "E", "C", "O", "R", "D", "S", "E", "P", "A", "R", "A",
      "T", "O", "R", " ", "-", "-", "-", "\n">>

RECURSIVE str_split(_, _, _, _)
\* str.split(sep) from index p on, `from` being where the current record began
str_split(s, sep, p, from) ==
    IF p > Len(s) THEN <<SubSeq(s, from, Len(s))>>
    ELSE IF OccursAt(s, p, sep)
         THEN <<SubSeq(s, from, p - 1)>> \o str_split(s, sep, p + Len(sep), p + Len(sep))
         ELSE str_split(s, sep, p + 1, from)

RECURSIVE str_join(_, _)
\* sep.join(list)
str_join(sep, ss) ==
    IF ss = <<>> THEN <<>>
    ELSE IF Len(ss) = 1 THEN ss[1]
    ELSE ss[1] \o sep \o str_join(sep, Tail(ss))

\* the records as str.split() without a separator would leave them: no empty record
PlainText_extract_strings_nonempty(d) ==
    SelectSeq(str_split(d, SEPARATOR, 1, 1), LAMBDA rec : rec # << >>)

\* JPEXSPlainTextParser._extract_strings
PlainText_extract_strings(d) == str_split(d, SEPARATOR, 1, 1)

-----------------------------------------------------------------------------
(* JPEXSActionScriptParser: the patterns                                   *)

MODE_HTML == "html"
MODE_HEURISTIC == "heuristic"
MODES == {MODE_HTML, MODE_HEURISTIC}

HTML_OPEN == <<"<", "h", "t", "m", "l", ">">>
HTML_CLOSE == <<"<", "/", "h", "t", "m", "l", ">">>

RECURSIVE LastIndexOf(_, _, _)
\* the last index q >= p of s holding character c, 0 if there is none
LastIndexOf(s, p, c) ==
    IF p > Len(s) THEN 0
    ELSE LET later == LastIndexOf(s, p + 1, c) IN
         IF later # 0 THEN later ELSE IF s[p] = c THEN p ELSE 0

\* MarkupTagEnd with the tag written  <.*>  : a tag runs to the last ">"
MarkupTagEnd_greedy(s, p) ==
    LET q == SkipWhile(s, p, WhiteSpace) IN
    IF q <= Len(s) /\ s[q] = "<"
    THEN LET r == LastIndexOf(s, q + 1, ">") IN
         IF r = 0 THEN 0 ELSE SkipWhile(s, r + 1, WhiteSpace)
    ELSE 0

\* the branch  \s*</?[^>]*>\s*  matched at index p: the index after the match, 0 if none
MarkupTagEnd(s, p) ==
    LET q == SkipWhile(s, p, WhiteSpace) IN
    IF q <= Len(s) /\ s[q] = "<"
    THEN LET r == IndexOf(s, q + 1, ">") IN
         IF r = 0 THEN 0 ELSE SkipWhile(s, r + 1, WhiteSpace)
    ELSE 0

\* the branch  \s*&[a-zA-Z0-9#]+;\s*  matched at index p
MarkupEntityEnd(s, p) ==
    LET q == SkipWhile(s, p, WhiteSpace) IN
    IF q <= Len(s) /\ s[q] = "&"
    THEN LET r == SkipWhile(s, q + 1, EntityChars) IN
         IF r > q + 1 /\ r <= Len(s) /\ s[r] = ";"
         THEN SkipWhile(s, r + 1, WhiteSpace)
         ELSE 0
    ELSE 0

\* HTML_MARKUP_PATTERN matched at index p: the first branch that matches
HTML_MARKUP_PATTERN(s, p) ==
    IF MarkupTagEnd(s, p) # 0 THEN MarkupTagEnd(s, p) ELSE MarkupEntityEnd(s, p)

RECURSIVE MarkupSpans(_, _)
\* the non-overlapping matches of HTML_MARKUP_PATTERN in s from index p on, left to
\* right, each as <<first index, index after the match>>
MarkupSpans(s, p) ==
    IF p > Len(s) THEN <<>>
    ELSE LET e == HTML_MARKUP_PATTERN(s, p) IN
         IF e # 0 THEN <<<<p, e>>>> \o MarkupSpans(s, e)
         ELSE MarkupSpans(s, p + 1)

\* HTML_MARKUP_PATTERN.split(s) with the empty chunks dropped
HTML_MARKUP_PATTERN_split_nonempty(s) ==
    LET sp == MarkupSpans(s, 1)
        n  == Len(sp)
        all == [k \in 1..(n + 1) |->
                  SubSeq(s, IF k = 1 THEN 1 ELSE sp[k - 1][2],
                            (IF k = n + 1 THEN Len(s) + 1 ELSE sp[k][1]) - 1)]
    IN  SelectSeq(all, LAMBDA chunk : chunk # << >>)

\* HTML_MARKUP_PATTERN.split(s)
HTML_MARKUP_PATTERN_split(s) ==
    LET sp == MarkupSpans(s, 1)
        n  == Len(sp)
    IN  [k \in 1..(n + 1) |->
            SubSeq(s, IF k = 1 THEN 1 ELSE sp[k - 1][2],
                      (IF k = n + 1 THEN Len(s) + 1 ELSE sp[k][1]) - 1)]

\* findall of the pattern with its tags and entities in a group: it returns the
\* groups, the matches with their white space left out
HTML_MARKUP_PATTERN_findall_group(s) ==
    LET sp == MarkupSpans(s, 1)
        strip(m) == SelectSeq(m, LAMBDA ch : ch \notin WhiteSpace)
    IN  [k \in 1..Len(sp) |-> strip(SubSeq(s, sp[k][1], sp[k][2] - 1))]

\* HTML_MARKUP_PATTERN.findall(s)
HTML_MARKUP_PATTERN_findall(s) ==
    LET sp == MarkupSpans(s, 1)
    IN  [k \in 1..Len(sp) |-> SubSeq(s, sp[k][1], sp[k][2] - 1)]

RECURSIVE STRING_LITERAL_PATTERN_finditer(_, _)
\* the matches of  "([^"]*)"  in s from index p on: <<opening quote, closing quote>>
STRING_LITERAL_PATTERN_finditer(s, p) ==
    LET o == IndexOf(s, p, DQ) IN
    IF o = 0 THEN <<>>
    ELSE LET c == IndexOf(s, o + 1, DQ) IN
         IF c = 0 THEN <<>>
         ELSE <<<<o, c>>>> \o STRING_LITERAL_PATTERN_finditer(s, c + 1)

\* HTML_TAGS_PATTERN.search(s) in place of fullmatch: text may surround the block
HTML_TAGS_PATTERN_search(s) ==
    \E i \in 1..Len(s) : \E j \in (i + Len(HTML_OPEN))..Len(s) :
        /\ OccursAt(s, i, HTML_OPEN)
        /\ OccursAt(s, j, HTML_CLOSE)
        /\ \A k \in (i + Len(HTML_OPEN))..(j - 1) : s[k] # NL

\* HTML_TAGS_PATTERN.match(s) in place of fullmatch: text may follow the block
HTML_TAGS_PATTERN_match(s) ==
    /\ OccursAt(s, 1, HTML_OPEN)
    /\ \E j \in (Len(HTML_OPEN) + 1)..Len(s) :
           /\ OccursAt(s, j, HTML_CLOSE)
           /\ \A k \in (Len(HTML_OPEN) + 1)..(j - 1) : s[k] # NL

\* HTML_TAGS_PATTERN.fullmatch(s) for  <html>.*</html> : the dot matches no newline
HTML_TAGS_PATTERN_fullmatch(s) ==
    /\ Len(s) >= Len(HTML_OPEN) + Len(HTML_CLOSE)
    /\ OccursAt(s, 1, HTML_OPEN)
    /\ OccursAt(s, Len(s) - Len(HTML_CLOSE) + 1, HTML_CLOSE)
    /\ \A k \in (Len(HTML_OPEN) + 1)..(Len(s) - Len(HTML_CLOSE)) : s[k] # NL

\* SENTENCE_PUNCTUATION_PATTERN.search(s)
SENTENCE_PUNCTUATION_PATTERN_search(s) ==
    \E k \in 1..Len(s) : s[k] \in SentencePunctuation

\* the letter-run pattern with {7,} for {6,}
OtherLetterRun_fullmatch_longer(s) ==
    /\ Len(s) > MinLetterRun
    /\ \A k \in 1..Len(s) : s[k] \in OtherLetter

\* regex.fullmatch(r"\p{General_Category=Other_Letter}{6,}", s)
OtherLetterRun_fullmatch(s) ==
    /\ Len(s) >= MinLetterRun
    /\ \A k \in 1..Len(s) : s[k] \in OtherLetter

-----------------------------------------------------------------------------
(* JPEXSActionScriptParser: the methods                                    *)

\* _ignore_string with the heuristic mode not looking for the <html> block first
_ignore_string_without_block(m, rx, literal_without_quotes) ==
    IF m = MODE_HTML
    THEN IF HTML_TAGS_PATTERN_fullmatch(literal_without_quotes) THEN FALSE ELSE TRUE
    ELSE IF SENTENCE_PUNCTUATION_PATTERN_search(literal_without_quotes) THEN FALSE
    ELSE IF rx /\ OtherLetterRun_fullmatch(literal_without_quotes) THEN FALSE
    ELSE TRUE

\* _ignore_string: TRUE if the literal is not to be seen
_ignore_string(m, rx, literal_without_quotes) ==
    IF m = MODE_HTML
    THEN IF HTML_TAGS_PATTERN_fullmatch(literal_without_quotes) THEN FALSE ELSE TRUE
    ELSE IF HTML_TAGS_PATTERN_fullmatch(literal_without_quotes) THEN FALSE
    ELSE IF SENTENCE_PUNCTUATION_PATTERN_search(literal_without_quotes) THEN FALSE
    ELSE IF rx /\ OtherLetterRun_fullmatch(literal_without_quotes) THEN FALSE
    ELSE TRUE

\* m.group(1) of the match <<o, c>>
Group1(d, lit) == SubSeq(d, lit[1] + 1, lit[2] - 1)

\* the passthrough returning m.group(1): the quotes are lost
Group0_without_quotes(d, lit) == SubSeq(d, lit[1] + 1, lit[2] - 1)

\* m.group(0) of the match <<o, c>>
Group0(d, lit) == SubSeq(d, lit[1], lit[2])

RECURSIVE extract_loop(_, _, _, _, _)
\* the loop of _extract_strings over the matches from the k-th on
extract_loop(d, lits, k, m, rx) ==
    IF k > Len(lits) THEN <<>>
    ELSE LET literal_without_quotes == Group1(d, lits[k]) IN
         (IF ~_ignore_string(m, rx, literal_without_quotes)
          THEN HTML_MARKUP_PATTERN_split(literal_without_quotes)
          ELSE <<>>)
         \o extract_loop(d, lits, k + 1, m, rx)

RECURSIVE extract_loop_last_first(_, _, _, _, _)
\* the loop putting the chunks of each literal in front of those collected so far
extract_loop_last_first(d, lits, k, m, rx) ==
    IF k > Len(lits) THEN <<>>
    ELSE LET literal_without_quotes == Group1(d, lits[k]) IN
         extract_loop_last_first(d, lits, k + 1, m, rx)
         \o (IF ~_ignore_string(m, rx, literal_without_quotes)
             THEN HTML_MARKUP_PATTERN_split(literal_without_quotes)
             ELSE <<>>)

\* _extract_strings with the later literals first
_extract_strings_last_first(d, m, rx) ==
    extract_loop_last_first(d, STRING_LITERAL_PATTERN_finditer(d, 1), 1, m, rx)

\* JPEXSActionScriptParser._extract_strings
_extract_strings(d, m, rx) ==
    extract_loop(d, STRING_LITERAL_PATTERN_finditer(d, 1), 1, m, rx)

\* new_string_chunk.replace('"', "'")
ReplaceQuotes(s) == [k \in 1..Len(s) |-> IF s[k] = DQ THEN SQ ELSE s[k]]

\* the class written  [<\n]  : "&" is kept
StripMarkupChars_keeps_amp(s) == SelectSeq(s, LAMBDA ch : ch \notin {"<", "\n"})

\* the class written  [<>\n&]  : ">" is removed too
StripMarkupChars_strips_gt(s) == SelectSeq(s, LAMBDA ch : ch \notin {"<", ">", "\n", "&"})

\* re.sub(r"[<\n&]", "", s)
StripMarkupChars(s) == SelectSeq(s, LAMBDA ch : ch \notin StrippedChars)

\* the escaping of one replacement string
Escape(s) == StripMarkupChars(ReplaceQuotes(s))

\* zip(a, b) in place of zip_longest: the pairs end with the shorter list
zip_shortest(a, b, fill) ==
    [k \in 1..(IF Len(a) <= Len(b) THEN Len(a) ELSE Len(b)) |-> <<a[k], b[k]>>]

\* itertools.zip_longest(a, b, fillvalue=fill)
zip_longest(a, b, fill) ==
    [k \in 1..Max(Len(a), Len(b)) |->
        <<IF k <= Len(a) THEN a[k] ELSE fill, IF k <= Len(b) THEN b[k] ELSE fill>>]

\* the interleaving with each markup run put before its string chunk
Interleave_markup_first(new_string_chunks, markup_chunks) ==
    LET z == zip_longest(markup_chunks, new_string_chunks, << >>)
    IN  Flatten([k \in 1..Len(z) |-> z[k][1] \o z[k][2]])

\* "".join("".join(tmp) for tmp in zip_longest(new_string_chunks, markup_chunks))
Interleave(new_string_chunks, markup_chunks) ==
    LET z == zip_longest(new_string_chunks, markup_chunks, <<>>)
    IN  Flatten([k \in 1..Len(z) |-> z[k][1] \o z[k][2]])

\* replace_strings.string_literal_action on one match, i entries being consumed so
\* far: the replacement text, the new i, and whether strings[i] raised IndexError
string_literal_action(d, lit, strs, i, m, rx) ==
    LET literal_without_quotes == Group1(d, lit) IN
    IF ~_ignore_string(m, rx, literal_without_quotes)
    THEN LET string_chunks == HTML_MARKUP_PATTERN_split(literal_without_quotes)
             n == Len(string_chunks)
         IN  IF i + n > Len(strs)
             THEN [out |-> <<>>, i |-> i, raised |-> TRUE]
             ELSE LET new_string_chunks == [k \in 1..n |-> Escape(strs[i + k])]
                      markup_chunks == HTML_MARKUP_PATTERN_findall(literal_without_quotes)
                  IN  [out |-> <<DQ>> \o Interleave(new_string_chunks, markup_chunks)
                                      \o <<DQ>>,
                       i |-> i + n, raised |-> FALSE]
    ELSE [out |-> Group0(d, lit), i |-> i, raised |-> FALSE]

RECURSIVE sub_loop(_, _, _, _, _, _, _, _, _)
\* STRING_LITERAL_PATTERN.sub(string_literal_action, d) from the k-th match on: pos is
\* the first index of d not yet copied, acc the text built so far
sub_loop(d, lits, k, pos, acc, strs, i, m, rx) ==
    IF k > Len(lits)
    THEN [data |-> acc \o SubSeq(d, pos, Len(d)), i |-> i, raised |-> FALSE]
    ELSE LET r == string_literal_action(d, lits[k], strs, i, m, rx) IN
         IF r.raised
         THEN [data |-> d, i |-> i, raised |-> TRUE]
         ELSE sub_loop(d, lits, k + 1, lits[k][2] + 1,
                       acc \o SubSeq(d, pos, lits[k][1] - 1) \o r.out, strs, r.i, m, rx)

\* the length check written  len(strings) > len(self.strings)
CountMismatch_longer_only(strs, self_strings) == Len(strs) > Len(self_strings)

\* the length check both replace_strings start with
CountMismatch(strs, self_strings) == Len(strs) # Len(self_strings)

\* the rewriting of JPEXSActionScriptParser.replace_strings after its length check
ActionScript_rewrite(d, strs, m, rx) ==
    sub_loop(d, STRING_LITERAL_PATTERN_finditer(d, 1), 1, 1, <<>>, strs, 0, m, rx)

\* JPEXSPlainTextParser.replace_strings after its length check
PlainText_rewrite(strs) == str_join(SEPARATOR, strs)

-----------------------------------------------------------------------------
(* The texts the parsers are constructed on                                *)

\* longest body of a generated literal, in fragments
MaxBody == 2
\* replace_strings calls made on one parser
MaxCalls == 1
\* records of a generated plain-text file
MaxRecords == 3

PARSER_AS == "JPEXSActionScriptParser"
PARSER_PT == "JPEXSPlainTextParser"

\* the sequences of at most n elements of S, each flattened into one text
Concats(S, n) == UNION {{Flatten(f) : f \in [1..k -> S]} : k \in 0..n}

\* fragments a literal's body is put together from
BodyFragments ==
    {<<"a">>, <<"\n">>, <<"&">>, <<"<", "b", ">">>, <<"U+3002">>, <<"U+3044">>,
     <<"U+3044", "U+3061", "U+306B", "U+3055", "U+3093">>}

\* literal contents: a body, bare or between the opening and the closing html tag
Contents ==
    LET bodies == Concats(BodyFragments, MaxBody)
    IN  bodies \cup {HTML_OPEN \o b \o HTML_CLOSE : b \in bodies}

\* the statement  t="<content>";
Statement(c) == <<"t", "=", DQ>> \o c \o <<DQ, ";">>

SRC_STRICT ==
    <<"t", "h", "i", "s", ".", "t", " ", "=", " ", "\"", "<", "h", "t", "m", "l", ">", "h",
      "i", "<", "/", "h", "t", "m", "l", ">", "\"", ";">>

SRC_MULTI ==
    <<"t", " ", "=", " ", "\"", "A", "<", "b", ">", "x", "<", "/", "b", ">", "B", "<", "b",
      "r", "/", ">", "C", "\"", ";">>

SRC_MULTI_PUNCT ==
    <<"t", " ", "=", " ", "\"", "A", "<", "b", ">", "x", "<", "/", "b", ">", "B", "<", "b",
      "r", "/", ">", "C", "U+3002", "\"", ";">>

\* a shortened tests/test_parsers.py ACTIONSCRIPT_INPUT_STRING
SRC_TEST ==
    <<"a", " ", "=", " ", "\"", "\"", ";", "\n", "b", " ", "=", " ", "\"", "s", "o", "m",
      "e", " ", "t", "e", "x", "t", "\"", ";", "\n", "c", " ", "=", " ", "\"", "<", "h",
      "t", "m", "l", ">", "s", "i", "m", "p", "l", "e", "<", "/", "h", "t", "m", "l", ">",
      "\"", ";", "\n", "d", " ", "=", " ", "\"", "U+3044", "U+3061", "U+3002", "\"", ";",
      " ", "/", "/", " ", "s", "h", "o", "r", "t", "\n", "e", " ", "=", " ", "\"",
      "U+3044", "U+3061", "\"", ";", "\n", "f", " ", "=", " ", "\"", "U+3044", "U+3061",
      "U+306B", "U+3055", "U+3093", "U+4E00", "U+4E8C", "U+4E09", "\"", ";", "\n">>

\* text4 of the tests: tags with attributes and a character reference
SRC_TEST4 ==
    <<"t", " ", "=", " ", "\"", "<", "h", "t", "m", "l", ">", "h", "1", "<", "f", "o", "n",
      "t", " ", "c", "o", "l", "o", "r", "=", "\\", "'", "#", "A", "\\", "'", ">", "h",
      "2", "<", "/", "f", "o", "n", "t", ">", "&", "n", "b", "s", "p", ";", "h", "3", "<",
      "/", "h", "t", "m", "l", ">", "\"", ";">>

\* a run of five letters and a run of seven
SRC_RUNS ==
    <<"a", " ", "=", " ", "\"", "U+3044", "U+3061", "U+306B", "U+3055", "U+3093", "\"",
      ";", " ", "b", " ", "=", " ", "\"", "U+3044", "U+3061", "U+306B", "U+3055", "U+3093",
      "U+4E00", "U+4E8C", "\"", ";">>

\* a last quote that is never closed
SRC_UNTERMINATED ==
    <<"a", " ", "=", " ", "\"", "<", "h", "t", "m", "l", ">", "x", "<", "/", "h", "t", "m",
      "l", ">", "\"", ";", " ", "b", " ", "=", " ", "\"", "U+3002">>

\* excluded and included literals side by side
SRC_MIXED ==
    <<"k", "[", "\"", "i", "d", "\"", "]", " ", "=", " ", "\"", "<", "h", "t", "m", "l",
      ">", "a", " ", "&", "a", "m", "p", ";", " ", "b", "<", "/", "h", "t", "m", "l", ">",
      "\"", " ", "+", " ", "\"", "U+3044", "U+3002", "\"", " ", "+", " ", "\"", "i", "d",
      "2", "\"", ";">>

\* literals with one of the two html tags only, or with text outside them
OneSidedContents ==
    {HTML_OPEN, HTML_CLOSE, HTML_OPEN \o <<"a">>, <<"a">> \o HTML_CLOSE,
     HTML_CLOSE \o HTML_OPEN, <<"a">> \o HTML_OPEN \o HTML_CLOSE,
     HTML_OPEN \o HTML_CLOSE \o <<" ">>, HTML_OPEN \o <<"U+3002">>,
     <<"<", "U+3002">>, <<" ", "<", "b", ">", " ", "a", ">", "U+3002">>,
     <<"&", "#", "1", ";", "&", ";", "&", "a", "U+3002">>}

ScenarioSources ==
    {SRC_STRICT, SRC_MULTI, SRC_MULTI_PUNCT, SRC_TEST, SRC_TEST4, SRC_RUNS,
     SRC_UNTERMINATED, SRC_MIXED}
    \cup {Statement(c) : c \in OneSidedContents}

ActionScriptSources == {Statement(c) : c \in Contents} \cup ScenarioSources

PlainTextSources ==
    Concats({<<"a">>, <<"\n">>, SEPARATOR}, MaxRecords)

-----------------------------------------------------------------------------
(* The lists replace_strings is called with                                *)

R_HELLO == <<"H", "E", "L", "L", "O">>

R_ESCAPING ==
    <<"H", "e", " ", "s", "a", "i", "d", " ", "\"", "h", "i", "\"", " ", "<", "b", ">", "\n">>

\* tests/test_parsers.py: 'REPLACE7"<&nbsp;\n', shortened
R_TEST == <<"R", "\"", "<", "&", "n", "b", "s", "p", ";", "\n">>

Replacements == <<<< >>, R_HELLO, R_ESCAPING, R_TEST>>

\* n times the string r
Fill(r, n) == [k \in 1..n |-> r]

\* the replacements in rotation: no two neighbours alike
Rotation(n) == [k \in 1..n |-> Replacements[((k - 1) % Len(Replacements)) + 1]]

\* the lists a caller passes where self_strings was extracted: the extracted strings
\* themselves, translations of all or of one of them, and lists of another length
ArgLists(self_strings) ==
    LET n == Len(self_strings) IN
    {self_strings, Rotation(n), Rotation(n + 1), <<R_HELLO>>, << >>,
     Fill(<< >>, n), Fill(R_ESCAPING, n), Fill(R_TEST, n)}
    \cup {[self_strings EXCEPT ![k] = R_HELLO] : k \in 1..n}

-----------------------------------------------------------------------------
(* The parser as a state machine                                           *)

\* Parser.__init__: the text is read and self.strings extracted from it
Init ==
    /\ \/ /\ cls = PARSER_AS
          /\ mode \in MODES
          /\ source \in ActionScriptSources
       \/ /\ cls = PARSER_PT
          /\ mode = "none"
          /\ source \in PlainTextSources
    /\ regex \in BOOLEAN
    /\ data = source
    /\ strings = IF cls = PARSER_AS THEN _extract_strings(source, mode, regex)
                                    ELSE PlainText_extract_strings(source)
    /\ arg = << >>
    /\ outcome = "constructed"
    /\ calls = 0
    /\ NoTranslator

\* replace_strings with the length check made after the rewriting: self.data is
\* assigned before ValueError is raised
ActionScript_call_check_last(strs) ==
    /\ cls = PARSER_AS
    /\ LET r == ActionScript_rewrite(data, strs, mode, regex) IN
       /\ outcome' = IF r.raised THEN "IndexError"
                     ELSE IF CountMismatch(strs, strings) THEN "ValueError" ELSE "replaced"
       /\ data' = IF r.raised THEN data ELSE r.data
    /\ arg' = strs
    /\ calls' = calls + 1
    /\ UNCHANGED <<cls, mode, regex, source, strings>>
    /\ UNCHANGED translator_vars

\* one call of JPEXSActionScriptParser.replace_strings(strs): self.data is assigned
\* when neither the length check nor the substitution has raised
ActionScript_call(strs) ==
    /\ cls = PARSER_AS
    /\ LET r == ActionScript_rewrite(data, strs, mode, regex) IN
       /\ outcome' = IF CountMismatch(strs, strings) THEN "ValueError"
                     ELSE IF r.raised THEN "IndexError" ELSE "replaced"
       /\ data' = IF CountMismatch(strs, strings) \/ r.raised THEN data ELSE r.data
    /\ arg' = strs
    /\ calls' = calls + 1
    /\ UNCHANGED <<cls, mode, regex, source, strings>>
    /\ UNCHANGED translator_vars

\* JPEXSActionScriptParser.replace_strings(strs)
ActionScript_replace_strings(strs) ==
    /\ calls < MaxCalls
    /\ ActionScript_call(strs)

\* JPEXSPlainTextParser.replace_strings(strs)
PlainText_replace_strings(strs) ==
    /\ cls = PARSER_PT
    /\ calls < MaxCalls
    /\ outcome' = IF CountMismatch(strs, strings) THEN "ValueError" ELSE "replaced"
    /\ data' = IF CountMismatch(strs, strings) THEN data ELSE PlainText_rewrite(strs)
    /\ arg' = strs
    /\ calls' = calls + 1
    /\ UNCHANGED <<cls, mode, regex, source, strings>>
    /\ UNCHANGED translator_vars

Next ==
    \/ \E strs \in ArgLists(strings) : ActionScript_replace_strings(strs)
    \/ \E strs \in ArgLists(strings) : PlainText_replace_strings(strs)

Spec == Init /\ [][Next]_vars

-----------------------------------------------------------------------------
(* One ActionScript parser called again and again                          *)

\* replace_strings calls made on the parser
MaxSessionCalls == 2

\* an ideographic letter and full stop: a literal only the heuristic mode includes
CONTENT_SENTENCE == <<"U+3044", "U+3002">>

\* literals with the <html> block around nothing, around an open tag, around a
\* bare "&", around an entity between spaces and around a line break
SessionContents ==
    {HTML_OPEN \o HTML_CLOSE,
     HTML_OPEN \o <<"<", "b">> \o HTML_CLOSE,
     HTML_OPEN \o <<"&">> \o HTML_CLOSE,
     HTML_OPEN \o <<"a", " ", "&", "l", "t", ";", " ", "b">> \o HTML_CLOSE,
     HTML_OPEN \o <<"a", "\n", "U+3002">> \o HTML_CLOSE,
     CONTENT_SENTENCE}

SessionSources ==
    {SRC_STRICT, SRC_MIXED, SRC_MULTI_PUNCT} \cup {Statement(c) : c \in SessionContents}

\* replacements the escaping empties, and one of white space
R_AMP == <<"&">>
R_MARKUP_CHARS == <<"<", "\n", "&">>
R_SPACE == <<" ">>

\* the lists of ArgLists, and the extracted strings with the first or the last of
\* them replaced
SessionArgLists(self_strings) ==
    LET n == Len(self_strings) IN
    ArgLists(self_strings)
    \cup {[self_strings EXCEPT ![k] = r] :
              k \in {1, n} \cap (1..n), r \in {R_AMP, R_MARKUP_CHARS, R_SPACE}}

Session_Init ==
    /\ cls = PARSER_AS
    /\ mode \in MODES
    /\ source \in SessionSources
    /\ regex \in BOOLEAN
    /\ data = source
    /\ strings = _extract_strings(source, mode, regex)
    /\ arg = << >>
    /\ outcome = "constructed"
    /\ calls = 0
    /\ NoTranslator

Session_replace_strings(strs) ==
    /\ calls < MaxSessionCalls
    /\ ActionScript_call(strs)

Session_Next ==
    \E strs \in SessionArgLists(strings) : Session_replace_strings(strs)

SessionSpec == Session_Init /\ [][Session_Next]_vars

-----------------------------------------------------------------------------
(* pyTranslateSwf.corpus and pyTranslateSwf.translators                    *)

TRANSLATOR == "Translator"

\* longest list translate_all is called with
MaxInput == 3
\* largest BATCH_SIZE of a Translator subclass
MaxBatchSize == 2

\* the strings given to translate and the translations a backend returns
InputStrings == {<< >>, <<"U+3044">>}
Translations == {<<"i">>, <<"I", "C", "H", "I">>}

\* the dicts ParallelCorpus.orig_to_translation can be
Dicts == UNION {[S -> Translations] : S \in SUBSET InputStrings}

\* ParallelCorpus.to_dict: the (orig, tran) pairs of the dict
to_dict(orig_to_translation) ==
    {<<orig, orig_to_translation[orig]>> : orig \in DOMAIN orig_to_translation}

\* ParallelCorpus.from_dict
from_dict(serialized) ==
    [orig \in {d[1] : d \in serialized} |-> (CHOOSE d \in serialized : d[1] = orig)[2]]

\* Translator.load_cache, after self.cache = ParallelCorpus()
load_cache(name, file) ==
    IF name # "None" /\ file # ABSENT THEN from_dict(file[1]) ELSE EmptyDict

\* Translator.write_cache: the file afterwards
write_cache(name, file, c) == IF name # "None" THEN <<to_dict(c)>> ELSE file

Min(a, b) == IF a <= b THEN a ELSE b

RECURSIVE dict_update(_, _, _)
\* for k, v in zip(ks, vs): c[k] = v
dict_update(c, ks, vs) ==
    IF ks = << >> \/ vs = << >> THEN c
    ELSE dict_update([x \in DOMAIN c \cup {Head(ks)} |->
                         IF x = Head(ks) THEN Head(vs) ELSE c[x]],
                     Tail(ks), Tail(vs))

\* the slice written  all_input_strings[i:]  : everything from offset i on
Slice_to_end(all_in, i, batch_size) == SubSeq(all_in, i + 1, Len(all_in))

\* all_input_strings[i:i+self.BATCH_SIZE]
Slice(all_in, i, batch_size) == SubSeq(all_in, i + 1, Min(i + batch_size, Len(all_in)))

\* the indices of the batch whose string is not in the cache
Unknown(input_strings, c) ==
    SelectSeq([k \in 1..Len(input_strings) |-> k], LAMBDA k : input_strings[k] \notin DOMAIN c)

RECURSIVE translate_loop(_, _, _, _, _, _, _)
\* the loop of translate_all from offset i on: c is the cache, out the list built so
\* far, made the _translate_all calls made so far; answers[p] is what the backend
\* returns for the string at position p of the input
translate_loop(all_in, i, batch_size, c, out, made, answers) ==
    IF i >= Len(all_in)
    THEN [cache |-> c, all_output_strings |-> out, backend |-> made]
    ELSE LET input_strings == Slice(all_in, i, batch_size)
             unknown == Unknown(input_strings, c)
             unknown_input_strings == [k \in 1..Len(unknown) |-> input_strings[unknown[k]]]
             unknown_input_strings_translation ==
                 [k \in 1..Len(unknown) |-> answers[i + unknown[k]]]
             c2 == dict_update(c, unknown_input_strings, unknown_input_strings_translation)
         IN  translate_loop(all_in, i + batch_size, batch_size, c2,
                            out \o [k \in 1..Len(input_strings) |-> c2[input_strings[k]]],
                            Append(made, [input_strings |-> unknown_input_strings,
                                          returned |-> unknown_input_strings_translation]),
                            answers)

\* Translator.__init__ of a subclass: the cache is loaded from the file if there is one
Translator_Init ==
    /\ cls = TRANSLATOR
    /\ NoParser
    /\ BATCH_SIZE \in 1..MaxBatchSize
    /\ CACHE_NAME \in {"None", "cache.json"}
    /\ cache_file \in IF CACHE_NAME = "None" THEN {ABSENT}
                      ELSE {ABSENT} \cup {<<to_dict(c)>> : c \in Dicts}
    /\ cache = load_cache(CACHE_NAME, cache_file)
    /\ all_input_strings = << >>
    /\ all_output_strings = << >>
    /\ backend = << >>
    /\ outcome = "constructed"
    /\ calls = 0

\* Translator.translate_all(input) with a backend _translate_all that returns a list
\* as long as its argument
translate_all(input, answers) ==
    /\ cls = TRANSLATOR
    /\ calls < MaxCalls
    /\ LET r == translate_loop(input, 0, BATCH_SIZE, cache, << >>, << >>, answers) IN
       /\ cache' = r.cache
       /\ all_output_strings' = r.all_output_strings
       /\ backend' = r.backend
       /\ cache_file' = write_cache(CACHE_NAME, cache_file, r.cache)
    /\ all_input_strings' = input
    /\ outcome' = "translated"
    /\ calls' = calls + 1
    /\ UNCHANGED <<BATCH_SIZE, CACHE_NAME>>
    /\ UNCHANGED parser_vars

\* the lists translate_all is called with
InputLists == UNION {[1..n -> InputStrings] : n \in 0..MaxInput}

Translator_Next ==
    \E input \in InputLists :
        \E answers \in [{p \in 1..Len(input) : input[p] \notin DOMAIN cache} -> Translations] :
            translate_all(input, answers)

TranslatorSpec == Translator_Init /\ [][Translator_Next]_vars

-----------------------------------------------------------------------------
(* Vocabulary of the properties                                            *)

\* the indices of t holding a double quote, in ascending order
QuoteIndices(t) ==
    LET all == [k \in 1..Len(t) |-> k]
    IN  SelectSeq(all, LAMBDA k : t[k] = DQ)

\* the text cut at its double quotes: the pieces between them, in order
QuoteSplit(t) ==
    LET qs == QuoteIndices(t)
        n  == Len(qs)
    IN  [j \in 1..(n + 1) |->
            SubSeq(t, IF j = 1 THEN 1 ELSE qs[j - 1] + 1,
                      IF j = n + 1 THEN Len(t) ELSE qs[j] - 1)]

\* piece j of a text cut at its quotes is the content of a quoted literal
IsLiteral(pieces, j) == j % 2 = 0 /\ j < Len(pieces)

\* piece j is the content of a literal the parser includes
IsIncluded(pieces, j) == IsLiteral(pieces, j) /\ ~_ignore_string(mode, regex, pieces[j])

\* the contents of the quoted literals of a text
LiteralsOf(t) ==
    LET pieces == QuoteSplit(t) IN {pieces[j] : j \in {i \in 1..Len(pieces) : i % 2 = 0 /\ i < Len(pieces)}}

StartsWith(s, pat) == Len(s) >= Len(pat) /\ SubSeq(s, 1, Len(pat)) = pat
EndsWith(s, pat) == Len(s) >= Len(pat) /\ SubSeq(s, Len(s) - Len(pat) + 1, Len(s)) = pat

\* the content is one block <html>...</html>
Wrapped(c) == StartsWith(c, HTML_OPEN) /\ EndsWith(c, HTML_CLOSE)

\* ... with no newline between the two tags
WrappedOnOneLine(c) ==
    /\ Wrapped(c)
    /\ \A k \in 1..Len(c) : (Len(HTML_OPEN) < k /\ k <= Len(c) - Len(HTML_CLOSE)) => c[k] # NL

HasPunctuation(c) == \E k \in 1..Len(c) : c[k] \in SentencePunctuation

LetterRun(c, n) == Len(c) = n /\ \A k \in 1..n : c[k] \in OtherLetter

\* a replace_strings call on the freshly constructed ActionScript parser succeeded
FreshReplaced == cls = PARSER_AS /\ calls = 1 /\ outcome = "replaced"

\* the number of markup runs of a content plus one: its plain segments
SegmentCount(c) == Len(HTML_MARKUP_PATTERN_findall(c)) + 1

RECURSIVE SegmentsBefore(_, _)
\* the plain segments of the included literals among pieces 1..j-1
SegmentsBefore(pieces, j) ==
    IF j <= 1 THEN 0
    ELSE SegmentsBefore(pieces, j - 1)
         + (IF IsIncluded(pieces, j - 1) THEN SegmentCount(pieces[j - 1]) ELSE 0)

RECURSIVE Rewritten(_, _, _)
\* e(R[k]) m0 e(R[k+1]) m1 ... for the markup runs ms
Rewritten(R, k, ms) ==
    Escape(R[k]) \o (IF ms = << >> THEN << >> ELSE Head(ms) \o Rewritten(R, k + 1, Tail(ms)))

RECURSIVE EscapeSpec(_)
\* character by character: a double quote becomes a single quote, "<", newline
\* and "&" disappear, every other character stays
EscapeSpec(r) ==
    IF r = << >> THEN << >>
    ELSE (IF Head(r) = DQ THEN <<SQ>>
          ELSE IF Head(r) \in {"<", NL, "&"} THEN << >>
          ELSE <<Head(r)>>) \o EscapeSpec(Tail(r))

RECURSIVE RewrittenSpec(_, _, _)
\* Rewritten with the escaping spelled out character by character
RewrittenSpec(R, k, ms) ==
    EscapeSpec(R[k])
    \o (IF ms = << >> THEN << >> ELSE Head(ms) \o RewrittenSpec(R, k + 1, Tail(ms)))

\* how many characters of s are in S
CountIn(s, S) == Cardinality({k \in 1..Len(s) : s[k] \in S})

RECURSIVE Between(_, _)
\* x m0 x m1 ... x for the markup runs ms
Between(x, ms) ==
    x \o (IF ms = << >> THEN << >> ELSE Head(ms) \o Between(x, Tail(ms)))

HI == <<"h", "i">>

OUT_STRICT ==
    <<"t", "h", "i", "s", ".", "t", " ", "=", " ", "\"", "<", "h", "t", "m", "l", ">", "H",
      "E", "L", "L", "O", "<", "/", "h", "t", "m", "l", ">", "\"", ";">>

RUN7 ==
    <<"U+3044", "U+3061", "U+306B", "U+3055", "U+3093", "U+4E00", "U+4E8C">>

CONTENT_MULTI ==
    <<"A", "<", "b", ">", "x", "<", "/", "b", ">", "B", "<", "b", "r", "/", ">", "C">>

MARKUP_MULTI == <<<<"<", "b", ">">>, <<"<", "/", "b", ">">>, <<"<", "b", "r", "/", ">">>>>

\* He said 'hi' b
INSERTED_WITHOUT_GT ==
    <<"H", "e", " ", "s", "a", "i", "d", " ", "'", "h", "i", "'", " ", "b">>

\* He said 'hi' b>
INSERTED ==
    <<"H", "e", " ", "s", "a", "i", "d", " ", "'", "h", "i", "'", " ", "b", ">">>

-----------------------------------------------------------------------------
(* C1                                                                      *)

\* a character the escaping changes occurs in s (a segment holds no double quote)
Escapable(s) == \E k \in 1..Len(s) : s[k] \in {"<", NL, "&"}

\* C1 as stated: replace_strings(get_extracted_strings()) on a fresh ActionScript
\* parser leaves data identical to the source text, whatever the text and the mode.
C1_RoundTripAnyText ==
    (FreshReplaced /\ arg = strings) => data = source

\* C1, amended: replace_strings(get_extracted_strings()) on a fresh ActionScript
\* parser leaves data identical to the source text whenever no extracted string
\* holds a "<", a "&" or a newline.
C1_RoundTripUnescaped ==
    (FreshReplaced /\ arg = strings /\ \A k \in 1..Len(strings) : ~Escapable(strings[k]))
        => data = source

C1_Witness ==
    /\ FreshReplaced
    /\ arg = strings
    /\ Len(strings) >= 4
    /\ \E k \in 1..Len(strings) : strings[k] # << >>
    /\ \A k \in 1..Len(strings) : ~Escapable(strings[k])
    /\ data = source

-----------------------------------------------------------------------------
(* C2                                                                      *)

\* C2 as stated: in html mode the source  this.t = "<html>hi</html>";  yields the
\* one extracted string "hi", and replace_strings(["HELLO"]) succeeds and gives
\* this.t = "<html>HELLO</html>";
C2_StrictScenarioOneString ==
    (cls = PARSER_AS /\ mode = MODE_HTML /\ source = SRC_STRICT)
        => /\ strings = <<HI>>
           /\ (calls = 1 /\ arg = <<R_HELLO>>) => (outcome = "replaced" /\ data = OUT_STRICT)

\* C2, amended: in html mode the source  this.t = "<html>hi</html>";  yields the three
\* extracted strings "", "hi", ""; replace_strings(["", "HELLO", ""]) succeeds and
\* gives  this.t = "<html>HELLO</html>";  and replace_strings(["HELLO"]) raises
\* ValueError and leaves data unchanged.
C2_StrictScenarioThreeStrings ==
    (cls = PARSER_AS /\ mode = MODE_HTML /\ source = SRC_STRICT)
        => /\ strings = <<<< >>, HI, << >>>>
           /\ (calls = 1 /\ arg = <<<< >>, R_HELLO, << >>>>)
                 => (outcome = "replaced" /\ data = OUT_STRICT)
           /\ (calls = 1 /\ arg = <<R_HELLO>>)
                 => (outcome = "ValueError" /\ data = source)

C2_Witness ==
    /\ cls = PARSER_AS /\ mode = MODE_HTML /\ source = SRC_STRICT
    /\ calls = 1 /\ arg = <<<< >>, R_HELLO, << >>>>
    /\ outcome = "replaced" /\ data = OUT_STRICT

-----------------------------------------------------------------------------
(* C3                                                                      *)

\* C3: on a fresh parser of either class, replace_strings with a list whose length
\* differs from that of the extracted strings raises ValueError and leaves data as it
\* was read.
C3_MismatchRejected ==
    (calls = 1 /\ Len(arg) # Len(strings)) => (outcome = "ValueError" /\ data = source)

C3_Witness ==
    /\ cls = PARSER_AS /\ calls = 1
    /\ 0 < Len(arg) /\ Len(arg) < Len(strings)
    /\ outcome = "ValueError" /\ data = source

-----------------------------------------------------------------------------
(* C4                                                                      *)

\* C4: after a successful replace_strings on a fresh ActionScript parser, the text
\* has the quotes of the source, and every piece between quotes that is not the
\* content of an included literal (the text outside the literals, the content of an
\* excluded literal) is the piece of the source, whatever list was passed.
C4_PassThrough ==
    FreshReplaced =>
        LET s == QuoteSplit(source)
            d == QuoteSplit(data)
        IN  /\ Len(d) = Len(s)
            /\ \A j \in 1..Len(s) : ~IsIncluded(s, j) => d[j] = s[j]

C4_Witness ==
    /\ FreshReplaced
    /\ data # source
    /\ LET s == QuoteSplit(source) IN
       /\ \E j \in 1..Len(s) : IsIncluded(s, j)
       /\ \E j \in 1..Len(s) : IsLiteral(s, j) /\ ~IsIncluded(s, j) /\ s[j] # << >>
       /\ s[1] # << >>

-----------------------------------------------------------------------------
(* C5                                                                      *)

\* C5: after a successful replace_strings(R) on a fresh ActionScript parser, the
\* content of each included literal is e(r_k) m0 e(r_k+1) ... m(n-1) e(r_k+n), the m's
\* being its markup runs in order and r_k.. the entries of R that follow those the
\* earlier included literals took; together the literals take all of R.
C5_PositionalSubstitution ==
    FreshReplaced =>
        LET s == QuoteSplit(source)
            d == QuoteSplit(data)
        IN  /\ Len(d) = Len(s)
            /\ SegmentsBefore(s, Len(s) + 1) = Len(arg)
            /\ \A j \in 1..Len(s) :
                   IsIncluded(s, j) =>
                       d[j] = Rewritten(arg, SegmentsBefore(s, j) + 1,
                                        HTML_MARKUP_PATTERN_findall(s[j]))

C5_Witness ==
    /\ FreshReplaced
    /\ Len(arg) >= 5
    /\ \A k \in 1..(Len(arg) - 1) : arg[k] # arg[k + 1]
    /\ LET s == QuoteSplit(source) IN
       \E i, j \in 1..Len(s) :
           /\ i < j /\ IsIncluded(s, i) /\ IsIncluded(s, j)
           /\ SegmentCount(s[i]) >= 3

-----------------------------------------------------------------------------
(* C6                                                                      *)

\* C6 as stated: in html mode a literal is included if and only if its content
\* starts with <html> and ends with </html>, whatever lies between them.
C6_StrictRuleAnyBody ==
    (cls = PARSER_AS /\ mode = MODE_HTML) =>
        \A c \in LiteralsOf(data) : ~_ignore_string(mode, regex, c) <=> Wrapped(c)

\* C6, amended: in html mode a literal is included if and only if its content starts
\* with <html>, ends with </html> and has no newline between the two; a fresh parser
\* extracts nothing exactly when its text has no such literal.
C6_StrictRuleOneLine ==
    (cls = PARSER_AS /\ mode = MODE_HTML) =>
        /\ \A c \in LiteralsOf(data) :
               ~_ignore_string(mode, regex, c) <=> WrappedOnOneLine(c)
        /\ calls = 0 =>
               (strings = << >> <=> \A c \in LiteralsOf(source) : ~WrappedOnOneLine(c))

C6_Witness ==
    /\ cls = PARSER_AS /\ mode = MODE_HTML /\ calls = 0
    /\ strings # << >>
    /\ \E c \in LiteralsOf(source) :
           /\ WrappedOnOneLine(c)
           /\ Len(c) > Len(HTML_OPEN) + Len(HTML_CLOSE)
    /\ \E c \in LiteralsOf(source) : c # << >> /\ ~Wrapped(c)

-----------------------------------------------------------------------------
(* C7                                                                      *)

\* the three conditions of the heuristic rule, the letter run being n letters or more
HeuristicRule(c, lettersApply) ==
    \/ WrappedOnOneLine(c)
    \/ HasPunctuation(c)
    \/ lettersApply /\ \E n \in MinLetterRun..Len(c) : LetterRun(c, n)

\* C7 as stated: in heuristic mode a literal is included if and only if it is a
\* wrapped block, or holds one of the six punctuation marks, or is a run of 6 or more
\* Other_Letter characters; a bare run of 5 letters is excluded and one of 7 gives the
\* one extracted string that is its content.
C7_HeuristicRuleAlways ==
    (cls = PARSER_AS /\ mode = MODE_HEURISTIC) =>
        /\ \A c \in LiteralsOf(data) :
               ~_ignore_string(mode, regex, c) <=> HeuristicRule(c, TRUE)
        /\ (source = SRC_RUNS) => strings = <<RUN7>>

\* C7, amended: the same, the letter-run condition applying only where the optional
\* module regex was imported: without it a bare run of letters of any length is
\* excluded.
C7_HeuristicRuleWithRegex ==
    (cls = PARSER_AS /\ mode = MODE_HEURISTIC) =>
        /\ \A c \in LiteralsOf(data) :
               ~_ignore_string(mode, regex, c) <=> HeuristicRule(c, regex)
        /\ (source = SRC_RUNS) => strings = (IF regex THEN <<RUN7>> ELSE << >>)

C7_Witness ==
    /\ cls = PARSER_AS /\ mode = MODE_HEURISTIC /\ regex /\ calls = 0
    /\ source = SRC_RUNS
    /\ strings = <<RUN7>>
    /\ \E c \in LiteralsOf(source) : LetterRun(c, MinLetterRun - 1)

-----------------------------------------------------------------------------
(* C8                                                                      *)

\* C8: after a successful replace_strings(R) on a fresh ActionScript parser each
\* entry of R stands in the text with its double quotes turned into single quotes
\* and its "<", newline and "&" characters deleted, the rest unchanged; so the text
\* has no more quotes than the source, and an included literal has as many "<", "&"
\* and newlines as its markup runs had.
C8_EscapingTransform ==
    FreshReplaced =>
        LET s == QuoteSplit(source)
            d == QuoteSplit(data)
        IN  /\ Len(d) = Len(s)
            /\ \A j \in 1..Len(s) :
                   IsIncluded(s, j) =>
                       /\ d[j] = RewrittenSpec(arg, SegmentsBefore(s, j) + 1,
                                               HTML_MARKUP_PATTERN_findall(s[j]))
                       /\ CountIn(d[j], StrippedChars)
                              = CountIn(Flatten(HTML_MARKUP_PATTERN_findall(s[j])),
                                        StrippedChars)

C8_Witness ==
    /\ FreshReplaced
    /\ \E k \in 1..Len(arg) :
           /\ CountIn(arg[k], {DQ}) > 0
           /\ CountIn(arg[k], {"<"}) > 0
           /\ CountIn(arg[k], {"&"}) > 0
           /\ CountIn(arg[k], {NL}) > 0
    /\ LET s == QuoteSplit(source) IN
       \E j \in 1..Len(s) :
           IsIncluded(s, j) /\ CountIn(s[j], {"&"}) > 0 /\ SegmentCount(s[j]) > 3

-----------------------------------------------------------------------------
(* C9                                                                      *)

\* every entry of the list passed is  He said "hi" <b>  and a newline
AllEscapingScenario == arg # << >> /\ \A k \in 1..Len(arg) : arg[k] = R_ESCAPING

\* C9 as stated: the replacement  He said "hi" <b>  followed by a newline is inserted
\* as  He said 'hi' b
C9_EscapingScenarioWithoutGt ==
    (FreshReplaced /\ AllEscapingScenario) =>
        LET s == QuoteSplit(source)
            d == QuoteSplit(data)
        IN  \A j \in 1..Len(s) :
                IsIncluded(s, j) =>
                    d[j] = Between(INSERTED_WITHOUT_GT, HTML_MARKUP_PATTERN_findall(s[j]))

\* C9, amended: the replacement  He said "hi" <b>  followed by a newline is inserted
\* as  He said 'hi' b>  : the ">" stays.
C9_EscapingScenarioKeepsGt ==
    (FreshReplaced /\ AllEscapingScenario) =>
        LET s == QuoteSplit(source)
            d == QuoteSplit(data)
        IN  \A j \in 1..Len(s) :
                IsIncluded(s, j) =>
                    d[j] = Between(INSERTED, HTML_MARKUP_PATTERN_findall(s[j]))

C9_Witness ==
    /\ FreshReplaced /\ AllEscapingScenario
    /\ LET s == QuoteSplit(source)
           d == QuoteSplit(data)
       IN  \E j \in 1..Len(s) : IsIncluded(s, j) /\ d[j] = INSERTED

-----------------------------------------------------------------------------
(* C10                                                                     *)

\* C10 as stated: a literal with content  A<b>x</b>B<br/>C  splits into the plain
\* segments A, B, C and the markup runs <b>, </b>, <br/>.
C10_MultiSegmentThree ==
    cls = PARSER_AS =>
        \A c \in LiteralsOf(data) :
            c = CONTENT_MULTI =>
                /\ HTML_MARKUP_PATTERN_split(c) = <<<<"A">>, <<"B">>, <<"C">>>>
                /\ HTML_MARKUP_PATTERN_findall(c) = MARKUP_MULTI

\* C10, amended: the content  A<b>x</b>B<br/>C  splits into the four plain segments
\* A, x, B, C and the markup runs <b>, </b>, <br/>; a literal with this content is
\* excluded in both modes; with a full stop added it is included in heuristic mode,
\* the four segments A, x, B, C<full stop> are extracted, and a successful
\* replace_strings on the fresh parser takes four entries and puts them around the
\* three markup runs.
C10_MultiSegmentFour ==
    cls = PARSER_AS =>
        /\ \A c \in LiteralsOf(data) :
               c = CONTENT_MULTI =>
                   /\ HTML_MARKUP_PATTERN_split(c) = <<<<"A">>, <<"x">>, <<"B">>, <<"C">>>>
                   /\ HTML_MARKUP_PATTERN_findall(c) = MARKUP_MULTI
        /\ source = SRC_MULTI => (strings = << >> /\ data = source)
        /\ (source = SRC_MULTI_PUNCT /\ mode = MODE_HEURISTIC) =>
               /\ strings = <<<<"A">>, <<"x">>, <<"B">>, <<"C", "U+3002">>>>
               /\ FreshReplaced =>
                      /\ Len(arg) = Len(MARKUP_MULTI) + 1
                      /\ QuoteSplit(data)[2] = Rewritten(arg, 1, MARKUP_MULTI)

C10_Witness ==
    /\ cls = PARSER_AS /\ mode = MODE_HEURISTIC /\ source = SRC_MULTI_PUNCT
    /\ FreshReplaced
    /\ arg = Rotation(Len(MARKUP_MULTI) + 1)
    /\ data # source

-----------------------------------------------------------------------------
(* C11                                                                     *)

\* p0 m0 p1 m1 ... pn for the plain segments ps and the markup runs ms
Partition(ps, ms) ==
    Flatten([k \in 1..Len(ps) |-> ps[k] \o (IF k <= Len(ms) THEN ms[k] ELSE << >>)])

\* C11: for the content of every quoted literal of the parser's text, included or
\* not, as constructed and as a replacement leaves it: the split on
\* HTML_MARKUP_PATTERN has one plain segment more than findall has markup runs,
\* p0 m0 p1 m1 ... pn is the content, and every markup run is one match of the
\* pattern. (A failed call leaves the text as it was: the state before it is the
\* case.)
C11_SegmentCount ==
    (cls = PARSER_AS /\ outcome \in {"constructed", "replaced"}) =>
        \A c \in LiteralsOf(data) :
            LET ps == HTML_MARKUP_PATTERN_split(c)
                ms == HTML_MARKUP_PATTERN_findall(c)
            IN  /\ Len(ps) = Len(ms) + 1
                /\ Partition(ps, ms) = c
                /\ \A k \in 1..Len(ms) : HTML_MARKUP_PATTERN(ms[k], 1) = Len(ms[k]) + 1

\* a rewritten literal with white space around its markup, an empty segment
\* between two markup runs and a segment that is not empty
C11_Witness ==
    /\ FreshReplaced
    /\ \E c \in LiteralsOf(data) :
           LET ps == HTML_MARKUP_PATTERN_split(c)
               ms == HTML_MARKUP_PATTERN_findall(c)
           IN  /\ Len(ms) >= 3
               /\ \E k \in 2..(Len(ps) - 1) : ps[k] = << >>
               /\ \E k \in 1..Len(ps) : ps[k] # << >>
               /\ \E k \in 1..Len(ms) : \E j \in 1..Len(ms[k]) : ms[k][j] \in WhiteSpace

-----------------------------------------------------------------------------
(* C12                                                                     *)

RECURSIVE SegmentsInOrder(_, _)
\* the plain segments of the included literals among pieces j.., literal after
\* literal and left to right within each
SegmentsInOrder(pieces, j) ==
    IF j > Len(pieces) THEN << >>
    ELSE (IF IsIncluded(pieces, j) THEN HTML_MARKUP_PATTERN_split(pieces[j]) ELSE << >>)
         \o SegmentsInOrder(pieces, j + 1)

\* C12: get_extracted_strings() of a JPEXSActionScriptParser is the concatenation,
\* over the quoted literals of the source from left to right, of the plain segments
\* of each included literal from left to right; an excluded literal contributes
\* nothing; the segments of literal j stand right after those of all earlier
\* literals. (Source, mode and the extracted list never change after construction:
\* the constructed parser is the case.)
C12_ExtractionOrder ==
    (cls = PARSER_AS /\ calls = 0) =>
        LET pieces == QuoteSplit(source) IN
        /\ strings = SegmentsInOrder(pieces, 1)
        /\ \A j \in 1..Len(pieces) :
               IsIncluded(pieces, j) =>
                   SubSeq(strings, SegmentsBefore(pieces, j) + 1,
                          SegmentsBefore(pieces, j) + SegmentCount(pieces[j]))
                       = HTML_MARKUP_PATTERN_split(pieces[j])

\* two included literals of several segments with an excluded literal before,
\* between and after them, the segments of the two being different
C12_Witness ==
    /\ cls = PARSER_AS
    /\ calls = 0
    /\ LET pieces == QuoteSplit(source) IN
       \E i, j, k \in 1..Len(pieces) :
           /\ i < j /\ j < k
           /\ IsIncluded(pieces, i) /\ IsIncluded(pieces, k)
           /\ IsLiteral(pieces, j) /\ ~IsIncluded(pieces, j)
           /\ SegmentCount(pieces[i]) >= 2
           /\ HTML_MARKUP_PATTERN_split(pieces[i]) # HTML_MARKUP_PATTERN_split(pieces[k])
           /\ Len(strings) >= SegmentCount(pieces[i]) + SegmentCount(pieces[k])

-----------------------------------------------------------------------------
(* C13                                                                     *)

\* piece j is the content of a literal included in mode m
IsIncludedIn(m, pieces, j) == IsLiteral(pieces, j) /\ ~_ignore_string(m, regex, pieces[j])

RECURSIVE WithoutAdditional(_, _, _, _)
\* the list H extracted in heuristic mode with the segments of the literals that
\* html mode does not include deleted: pos entries of H belong to pieces 1..j-1
WithoutAdditional(pieces, j, H, pos) ==
    IF j > Len(pieces) THEN << >>
    ELSE IF IsIncludedIn(MODE_HEURISTIC, pieces, j)
         THEN LET n == SegmentCount(pieces[j]) IN
              (IF IsIncludedIn(MODE_HTML, pieces, j)
               THEN SubSeq(H, pos + 1, pos + n) ELSE << >>)
              \o WithoutAdditional(pieces, j + 1, H, pos + n)
         ELSE WithoutAdditional(pieces, j + 1, H, pos)

\* what get_extracted_strings() gives on the parser's source in mode m
ExtractedIn(m) == IF mode = m THEN strings ELSE _extract_strings(source, m, regex)

\* C13: every literal of the source included in 'html' mode is included in
\* 'heuristic' mode, and the list extracted in 'html' mode is the list extracted
\* in 'heuristic' mode with the segments of the additionally included literals
\* deleted, the others keeping their order. (Checked on the constructed parser: the
\* source does not change afterwards.)
C13_ModeContainment ==
    (cls = PARSER_AS /\ calls = 0) =>
        LET pieces == QuoteSplit(source) IN
        /\ \A j \in 1..Len(pieces) :
               IsIncludedIn(MODE_HTML, pieces, j) => IsIncludedIn(MODE_HEURISTIC, pieces, j)
        /\ Len(ExtractedIn(MODE_HTML)) <= Len(ExtractedIn(MODE_HEURISTIC))
        /\ ExtractedIn(MODE_HTML)
               = WithoutAdditional(pieces, 1, ExtractedIn(MODE_HEURISTIC), 0)

\* a source with a literal both modes include, followed by one only the
\* heuristic mode includes and by one no mode includes
C13_Witness ==
    /\ cls = PARSER_AS
    /\ calls = 0
    /\ LET pieces == QuoteSplit(source) IN
       \E i, j, k \in 1..Len(pieces) :
           /\ i < j
           /\ IsIncludedIn(MODE_HTML, pieces, i)
           /\ IsIncludedIn(MODE_HEURISTIC, pieces, j) /\ ~IsIncludedIn(MODE_HTML, pieces, j)
           /\ IsLiteral(pieces, k) /\ ~IsIncludedIn(MODE_HEURISTIC, pieces, k)
    /\ ExtractedIn(MODE_HTML) # << >>
    /\ Len(ExtractedIn(MODE_HTML)) < Len(ExtractedIn(MODE_HEURISTIC))

-----------------------------------------------------------------------------
(* C14                                                                     *)

\* the separator occurs somewhere in s
HasSeparator(s) == \E p \in 1..Len(s) : OccursAt(s, p, SEPARATOR)

\* the elements of ss with the separator between each two of them
Joined(ss) ==
    Flatten([k \in 1..Len(ss) |-> ss[k] \o (IF k < Len(ss) THEN SEPARATOR ELSE << >>)])

\* C14: a JPEXSPlainTextParser extracts the records of its text: at least one, the
\* empty text giving one empty record, none holding the separator, and joined by
\* the separator they are the text. replace_strings(S) with as many entries as
\* there are records succeeds and sets data to the entries of S joined by the
\* separator in order; with S the extracted records, on the constructed parser, data
\* stays what it was.
C14_PlainTextSplitJoin ==
    cls = PARSER_PT =>
        /\ Len(strings) >= 1
        /\ source = << >> => strings = << << >> >>
        /\ \A k \in 1..Len(strings) : ~HasSeparator(strings[k])
        /\ Joined(strings) = source
        /\ (calls > 0 /\ Len(arg) = Len(strings)) =>
               (outcome = "replaced" /\ data = Joined(arg))
        /\ (calls = 1 /\ arg = strings) => data = source

\* a text of three records, one of them empty, replaced by other strings
C14_Witness ==
    /\ cls = PARSER_PT
    /\ Len(strings) = 3
    /\ \E k \in 1..3 : strings[k] = << >>
    /\ \E k \in 1..3 : strings[k] # << >>
    /\ outcome = "replaced"
    /\ arg # strings
    /\ data # source

-----------------------------------------------------------------------------
(* C15                                                                     *)

\* string s is in the argument of one of the _translate_all calls in made
PassedToBackend(s, made) ==
    \E b \in 1..Len(made) :
        \E k \in 1..Len(made[b].input_strings) : made[b].input_strings[k] = s

\* translation t is what one of the _translate_all calls in made returned for s
ReturnedFor(s, t, made) ==
    \E b \in 1..Len(made) :
        \E k \in 1..Len(made[b].input_strings) :
            made[b].input_strings[k] = s /\ made[b].returned[k] = t

\* one translate_all call, from the state before it to the state after it
C15_Call ==
    (cls = TRANSLATOR /\ calls' = calls + 1) =>
        /\ Len(all_output_strings') = Len(all_input_strings')
        /\ \A i \in 1..Len(all_input_strings') :
               LET s == all_input_strings'[i] IN
               IF s \in DOMAIN cache
               THEN all_output_strings'[i] = cache[s]
               ELSE ReturnedFor(s, all_output_strings'[i], backend')
        /\ \A s \in DOMAIN cache :
               /\ ~PassedToBackend(s, backend')
               /\ s \in DOMAIN cache'
               /\ cache'[s] = cache[s]
        /\ \A b \in 1..Len(backend') :
               /\ Len(backend'[b].input_strings) <= BATCH_SIZE
               /\ Len(backend'[b].returned) = Len(backend'[b].input_strings)

\* C15: translate_all returns a list as long as its argument; position i holds the
\* translation the cache had before the call if the string was cached, and such a
\* string is not passed to the backend and keeps its cache entry; otherwise it holds
\* a translation the backend returned for that string; no backend call gets more
\* than BATCH_SIZE strings.
C15_TranslateAll == [][C15_Call]_vars

\* a list longer than BATCH_SIZE with a string twice, one of its strings cached
\* before the call and one translated by the backend, in two or more batches
C15_Witness ==
    /\ cls = TRANSLATOR
    /\ outcome = "translated"
    /\ Len(all_input_strings) > BATCH_SIZE
    /\ \E i, j \in 1..Len(all_input_strings) :
           i < j /\ all_input_strings[i] = all_input_strings[j]
    /\ \E i \in 1..Len(all_input_strings) : ~PassedToBackend(all_input_strings[i], backend)
    /\ \E i \in 1..Len(all_input_strings) : PassedToBackend(all_input_strings[i], backend)
    /\ Len(backend) >= 2

-----------------------------------------------------------------------------
(* C16                                                                     *)

\* C16: whatever replace_strings calls have succeeded on a JPEXSActionScriptParser
\* before, replace_strings(R) fails whenever len(R) differs from the number of
\* plain segments that extraction in the parser's mode yields on the text the
\* parser holds at the call.
C16_LengthCheckCurrent ==
    [][(cls = PARSER_AS /\ calls' = calls + 1
        /\ Len(arg') # Len(_extract_strings(data, mode, regex)))
       => outcome' = "ValueError"]_vars

-----------------------------------------------------------------------------
(* C17                                                                     *)

\* one replace_strings call on an ActionScript parser that raises
RaisingCall ==
    /\ cls = PARSER_AS
    /\ calls' = calls + 1
    /\ outcome' \in {"ValueError", "IndexError"}

\* C17: whenever replace_strings of a JPEXSActionScriptParser raises, on the
\* constructed parser or after earlier successful calls, parser.data and the
\* extracted list are what they were before the call; a call that does not raise
\* has passed the length check.
C17_AllOrNothing ==
    [][/\ RaisingCall => (data' = data /\ strings' = strings)
       /\ (cls = PARSER_AS /\ calls' = calls + 1 /\ outcome' = "replaced")
              => Len(arg') = Len(strings)]_vars

\* a call raising on a parser whose text an earlier call has rewritten
C17_Witness ==
    /\ cls = PARSER_AS
    /\ calls >= 2
    /\ outcome = "ValueError"
    /\ data # source
    /\ arg # << >>
    /\ Len(arg) > Len(_extract_strings(data, mode, regex))

-----------------------------------------------------------------------------
(* C18                                                                     *)

\* every literal of text t that meets the strict condition is included in both
\* modes and splits into three or more segments, the first and the last empty
EdgeSegmentsEmpty(t) ==
    \A c \in LiteralsOf(t) :
        HTML_TAGS_PATTERN_fullmatch(c) =>
            LET ps == HTML_MARKUP_PATTERN_split(c) IN
            /\ \A m \in MODES : ~_ignore_string(m, regex, c)
            /\ Len(ps) >= 3
            /\ ps[1] = << >>
            /\ ps[Len(ps)] = << >>

\* the positions in the list of the first and the last segment of piece j
EdgePositions(pieces, j) ==
    {SegmentsBefore(pieces, j) + 1, SegmentsBefore(pieces, j) + SegmentCount(pieces[j])}

\* C18 as stated: the first and the last segment of a literal meeting the strict
\* condition are empty, and after a successful replace_strings on the constructed
\* parser that gives one of these two positions a non-empty string the rewritten
\* literal does not meet the strict condition.
C18_EdgeAnyNonEmpty ==
    cls = PARSER_AS =>
        /\ EdgeSegmentsEmpty(data)
        /\ FreshReplaced =>
               LET s == QuoteSplit(source)
                   d == QuoteSplit(data)
               IN  \A j \in 1..Len(s) :
                       (IsLiteral(s, j) /\ HTML_TAGS_PATTERN_fullmatch(s[j])) =>
                           ((\E p \in EdgePositions(s, j) : arg[p] # << >>)
                                => ~HTML_TAGS_PATTERN_fullmatch(d[j]))

\* C18, amended: the first and the last segment of a literal meeting the strict
\* condition are empty in both modes and the literal has three or more segments;
\* after a successful replace_strings on the constructed parser that gives one of
\* these two positions a string that is not empty once escaped, the rewritten
\* literal does not meet the strict condition. (A string of "<", "&" and newlines
\* is empty once escaped, one of white space is not.)
C18_EdgeNonEmptyEscaped ==
    cls = PARSER_AS =>
        /\ EdgeSegmentsEmpty(data)
        /\ FreshReplaced =>
               LET s == QuoteSplit(source)
                   d == QuoteSplit(data)
               IN  \A j \in 1..Len(s) :
                       (IsLiteral(s, j) /\ HTML_TAGS_PATTERN_fullmatch(s[j])) =>
                           ((\E p \in EdgePositions(s, j) : Escape(arg[p]) # << >>)
                                => ~HTML_TAGS_PATTERN_fullmatch(d[j]))

\* a literal in <html>...</html> whose last segment was given white space: the
\* rewritten literal is no more in the block, and the text has no segment left
C18_Witness ==
    /\ FreshReplaced
    /\ LET s == QuoteSplit(source)
           d == QuoteSplit(data)
       IN  \E j \in 1..Len(s) :
               /\ IsLiteral(s, j) /\ HTML_TAGS_PATTERN_fullmatch(s[j])
               /\ arg[SegmentsBefore(s, j) + 1] = << >>
               /\ arg[SegmentsBefore(s, j) + SegmentCount(s[j])] = R_SPACE
               /\ ~HTML_TAGS_PATTERN_fullmatch(d[j])
               /\ EndsWith(d[j], HTML_CLOSE \o R_SPACE)

=============================================================================
